---- MODULE Spec2Model ----
(***************************************************************************)
(* A model of CertProcessor (cert_processor.py): the CA key file, the CA   *)
(* certificate file, the keyring calls (verify, decrypt) and certificate   *)
(* issuance (generate_cert).                                               *)
(*                                                                         *)
(* Spec     : calls run one after another, each call one atomic action.    *)
(* SpecConc : two callers run generate_cert concurrently, one file         *)
(*            operation per step, with no lock (the code takes none).      *)
(*                                                                         *)
(* Abstractions: a private key is a positive integer (0 = no key); a       *)
(* freshly generated key or serial number is a value never used before     *)
(* (RSA-4096 / random serials collide with negligible probability); a text *)
(* is a sequence of one-character strings.                                 *)
(***************************************************************************)
EXTENDS Integers, Sequences, FiniteSets, TLC

VARIABLES keyFile, certFile, nextKey, nextSerial, cfgAlt, last, prevKey, verified, pc, loc, lastWriter

vars == <<keyFile, certFile, nextKey, nextSerial, cfgAlt, last, prevKey, verified, pc, loc, lastWriter>>

----------------------------------------------------------------------------
(* Bounds *)

NumInitKeys == 1
NumCSRs == 2
MaxAltLen == 3

InitKeys == 1..NumInitKeys
CSRs == 1..NumCSRs
Lifetimes == {-1, 0, 1}   \* hours; a negative lifetime puts not_valid_after before not_valid_before
AltChars == {"a", ","}
Procs == {"c1", "c2"}

RECURSIVE TextsOfLen(_)
TextsOfLen(n) ==
    IF n = 0 THEN {<<>>}
    ELSE {Append(t, c) : t \in TextsOfLen(n - 1), c \in AltChars}

AltTexts == UNION {TextsOfLen(n) : n \in 0..MaxAltLen}

----------------------------------------------------------------------------
(* Values *)

KeyAbsent == [st |-> "absent", key |-> 0]
KeyCorrupt == [st |-> "corrupt", key |-> 0]
KeyValid(k) == [st |-> "valid", key |-> k]

NoCert == [pub |-> 0, serial |-> 0]
Cert(pub, serial) == [pub |-> pub, serial |-> serial]
CertAbsent == [st |-> "absent", cert |-> NoCert]
CertCorrupt == [st |-> "corrupt", cert |-> NoCert]
CertValid(c) == [st |-> "valid", cert |-> c]

NoLeaf == [subject |-> 0, pub |-> 0, issuer |-> NoCert, signedBy |-> 0,
           hasSan |-> FALSE, san |-> <<>>, hours |-> 0]

----------------------------------------------------------------------------
(* generate_cert, lines 174-176: str.split(',') *)

RECURSIVE FirstComma(_, _)
FirstComma(s, i) ==
    IF i > Len(s) THEN 0
    ELSE IF s[i] = "," THEN i
    ELSE FirstComma(s, i + 1)

RECURSIVE Split(_)
Split(s) ==
    LET i == FirstComma(s, 1) IN
    IF i = 0 THEN <<s>>
    ELSE <<SubSeq(s, 1, i - 1)>> \o Split(SubSeq(s, i + 1, Len(s)))

Alts(s) == Split(s)

----------------------------------------------------------------------------
(* get_ca_key, lines 79-101.  open() of a missing file raises              *)
(* FileNotFoundError, which `except ValueError` does not catch.            *)

GetCaKeyAlwaysGenerates(kf, fresh) ==
    [outcome |-> "ret", exc |-> "none", key |-> fresh, file |-> KeyValid(fresh)]

GetCaKeyResult(kf, fresh) ==
    IF kf.st = "absent" THEN
        [outcome |-> "raise", exc |-> "FileNotFoundError", key |-> 0, file |-> kf]
    ELSE IF kf.st = "valid" THEN
        [outcome |-> "ret", exc |-> "none", key |-> kf.key, file |-> kf]
    ELSE
        [outcome |-> "ret", exc |-> "none", key |-> fresh, file |-> KeyValid(fresh)]

(* get_ca_cert, lines 113-167.  os.path.isfile, then load or build+write.  *)
(* A file that exists but does not parse raises ValueError.                *)

GetCaCertAlwaysBuilds(cf, key, serial) ==
    [outcome |-> "ret", exc |-> "none", cert |-> Cert(key, serial),
     file |-> CertValid(Cert(key, serial))]

GetCaCertResult(cf, key, serial) ==
    IF cf.st = "valid" THEN
        [outcome |-> "ret", exc |-> "none", cert |-> cf.cert, file |-> cf]
    ELSE IF cf.st = "corrupt" THEN
        [outcome |-> "raise", exc |-> "ValueError", cert |-> NoCert, file |-> cf]
    ELSE
        [outcome |-> "ret", exc |-> "none", cert |-> Cert(key, serial),
         file |-> CertValid(Cert(key, serial))]

(* generate_cert, lines 172-201: the certificate built once the CA key and *)
(* the CA certificate are at hand.                                         *)

BuildLeaf(csr, lifetime, alt, caKey, caCert) ==
    LET alts == Alts(alt) IN
    IF lifetime < 0 THEN
        [outcome |-> "raise", exc |-> "ValueError", leaf |-> NoLeaf]
    ELSE IF csr = 0 THEN
        [outcome |-> "raise", exc |-> "AttributeError", leaf |-> NoLeaf]
    ELSE
        [outcome |-> "ret", exc |-> "none",
         leaf |-> [subject |-> csr, pub |-> csr, issuer |-> caCert,
                   signedBy |-> caKey,
                   hasSan |-> Len(alts) > 0,
                   san |-> IF Len(alts) > 0 THEN alts ELSE <<>>,
                   hours |-> lifetime]]

GenerateCertRebuildsCa(kf, cf, fresh, serial, csr, lifetime, alt) ==
    LET k == GetCaKeyResult(kf, fresh)
        c == GetCaCertAlwaysBuilds(cf, k.key, serial)
        l == BuildLeaf(csr, lifetime, alt, k.key, c.cert) IN
    IF k.outcome = "raise" THEN
        [outcome |-> "raise", exc |-> k.exc, leaf |-> NoLeaf,
         keyFile |-> k.file, certFile |-> cf]
    ELSE
        [outcome |-> l.outcome, exc |-> l.exc, leaf |-> l.leaf,
         keyFile |-> k.file, certFile |-> c.file]

(* generate_cert, lines 169-201, as one call *)

GenerateCertResult(kf, cf, fresh, serial, csr, lifetime, alt) ==
    LET k == GetCaKeyResult(kf, fresh) IN
    IF k.outcome = "raise" THEN
        [outcome |-> "raise", exc |-> k.exc, leaf |-> NoLeaf,
         keyFile |-> k.file, certFile |-> cf]
    ELSE
        LET c == GetCaCertResult(cf, k.key, serial) IN
        IF c.outcome = "raise" THEN
            [outcome |-> "raise", exc |-> c.exc, leaf |-> NoLeaf,
             keyFile |-> k.file, certFile |-> c.file]
        ELSE
            LET l == BuildLeaf(csr, lifetime, alt, k.key, c.cert) IN
            [outcome |-> l.outcome, exc |-> l.exc, leaf |-> l.leaf,
             keyFile |-> k.file, certFile |-> c.file]

(* verify, lines 55-60.  kr is what gpg.verify_data does: it returns a     *)
(* result with valid true ("valid") or false ("invalid"), or raises.       *)

VerifyInverted(kr) ==
    IF kr = "raise" THEN [outcome |-> "raise", exc |-> "KeyringError"]
    ELSE IF kr = "valid" THEN
        [outcome |-> "raise", exc |-> "CertProcessorInvalidSignatureError"]
    ELSE [outcome |-> "ret", exc |-> "none"]

VerifyIgnoresResult(kr) ==
    IF kr = "raise" THEN [outcome |-> "raise", exc |-> "KeyringError"]
    ELSE [outcome |-> "ret", exc |-> "none"]

VerifyResult(kr) ==
    IF kr = "raise" THEN [outcome |-> "raise", exc |-> "KeyringError"]
    ELSE IF kr # "valid" THEN
        [outcome |-> "raise", exc |-> "CertProcessorInvalidSignatureError"]
    ELSE [outcome |-> "ret", exc |-> "none"]

(* decrypt, lines 42-53.  kr is what gpg.decrypt does: a result with ok    *)
(* true ("ok") or false ("notok"), or an exception ("raise").  After the   *)
(* except branch data is None, and `data.ok` raises AttributeError.        *)

DecryptResult(kr, fp) ==
    IF kr = "raise" THEN
        [outcome |-> "raise", exc |-> "AttributeError", plain |-> "none", fp |-> "none"]
    ELSE IF kr = "notok" THEN
        [outcome |-> "ret", exc |-> "none", plain |-> "none", fp |-> fp]
    ELSE
        [outcome |-> "ret", exc |-> "none", plain |-> "data", fp |-> fp]

----------------------------------------------------------------------------
(* State after construction.  The files are whatever the deployment left:  *)
(* a key file that is absent, unparseable or valid, and a certificate file *)
(* that is absent, unparseable or holds a certificate.  A valid key file   *)
(* next to a certificate starts out matching it; a certificate next to a   *)
(* lost or damaged key file certifies the key that was there before.       *)

NoCall == [op |-> "none", outcome |-> "none", exc |-> "none", key |-> 0,
           cert |-> NoCert, leaf |-> NoLeaf, plain |-> "none", fp |-> "none",
           kr |-> "none", csr |-> 0, preKey |-> KeyAbsent, preCert |-> CertAbsent]

NoLocals == [csr |-> 0, lifetime |-> 0, key |-> 0, cert |-> NoCert,
             sawAbsent |-> FALSE, leaf |-> NoLeaf, exc |-> "none"]

InitFiles ==
    \/ \E k \in InitKeys :
          /\ keyFile = KeyValid(k)
          /\ certFile \in {CertAbsent, CertCorrupt, CertValid(Cert(k, 1))}
    \/ /\ keyFile \in {KeyAbsent, KeyCorrupt}
       /\ certFile \in {CertAbsent, CertCorrupt} \cup {CertValid(Cert(k, 1)) : k \in InitKeys}

Init ==
    /\ InitFiles
    /\ nextKey = NumInitKeys + 1
    /\ nextSerial = 2
    /\ cfgAlt \in AltTexts
    /\ last = NoCall
    /\ prevKey = 0
    /\ verified = {}
    /\ pc = [p \in Procs |-> "idle"]
    /\ loc = [p \in Procs |-> NoLocals]
    /\ lastWriter = "none"

----------------------------------------------------------------------------
(* Calls made one after another *)

ConcUnchanged == UNCHANGED <<pc, loc, lastWriter>>

Call(op) == [NoCall EXCEPT !.op = op, !.preKey = keyFile, !.preCert = certFile]

GetCaKey ==
    LET r == GetCaKeyResult(keyFile, nextKey) IN
    /\ keyFile' = r.file
    /\ nextKey' = IF r.file # keyFile THEN nextKey + 1 ELSE nextKey
    /\ last' = [Call("get_ca_key") EXCEPT !.outcome = r.outcome, !.exc = r.exc,
                                          !.key = r.key]
    /\ prevKey' = IF last.op = "get_ca_key" THEN last.key ELSE 0
    /\ UNCHANGED <<certFile, nextSerial, cfgAlt, verified>>
    /\ ConcUnchanged

(* get_ca_cert(key) is called with the key get_ca_key hands out *)
GetCaCert ==
    /\ keyFile.st = "valid"
    /\ LET r == GetCaCertResult(certFile, keyFile.key, nextSerial) IN
       /\ certFile' = r.file
       /\ nextSerial' = IF r.file # certFile THEN nextSerial + 1 ELSE nextSerial
       /\ last' = [Call("get_ca_cert") EXCEPT !.outcome = r.outcome, !.exc = r.exc,
                                              !.key = keyFile.key, !.cert = r.cert]
    /\ prevKey' = 0
    /\ UNCHANGED <<keyFile, nextKey, cfgAlt, verified>>
    /\ ConcUnchanged

GenerateCert(csr, lifetime) ==
    LET r == GenerateCertResult(keyFile, certFile, nextKey, nextSerial,
                                csr, lifetime, cfgAlt) IN
    /\ keyFile' = r.keyFile
    /\ certFile' = r.certFile
    /\ nextKey' = IF r.keyFile # keyFile THEN nextKey + 1 ELSE nextKey
    /\ nextSerial' = IF r.certFile # certFile THEN nextSerial + 1 ELSE nextSerial
    /\ last' = [Call("generate_cert") EXCEPT !.outcome = r.outcome, !.exc = r.exc,
                                             !.leaf = r.leaf, !.csr = csr]
    /\ prevKey' = 0
    /\ UNCHANGED <<cfgAlt, verified>>
    /\ ConcUnchanged

Verify(csr, kr) ==
    LET r == VerifyResult(kr) IN
    /\ verified' = IF r.outcome = "ret" THEN verified \cup {csr} ELSE verified
    /\ last' = [Call("verify") EXCEPT !.outcome = r.outcome, !.exc = r.exc,
                                      !.kr = kr, !.csr = csr]
    /\ prevKey' = 0
    /\ UNCHANGED <<keyFile, certFile, nextKey, nextSerial, cfgAlt>>
    /\ ConcUnchanged

Decrypt(kr, fp) ==
    LET r == DecryptResult(kr, fp) IN
    /\ last' = [Call("decrypt") EXCEPT !.outcome = r.outcome, !.exc = r.exc,
                                       !.kr = kr, !.plain = r.plain, !.fp = r.fp]
    /\ prevKey' = 0
    /\ UNCHANGED <<keyFile, certFile, nextKey, nextSerial, cfgAlt, verified>>
    /\ ConcUnchanged

(* The request flow of section 2: a caller presents a CSR with a detached  *)
(* signature, runs verify, and runs generate_cert once verify has returned.*)
(* An exception raised by verify ends the request.                         *)
HandleRequest(csr, kr, lifetime) ==
    LET v == VerifyResult(kr) IN
    IF v.outcome = "raise" THEN
        /\ last' = [Call("request") EXCEPT !.outcome = v.outcome, !.exc = v.exc,
                                           !.kr = kr, !.csr = csr]
        /\ prevKey' = 0
        /\ UNCHANGED <<keyFile, certFile, nextKey, nextSerial, cfgAlt, verified>>
        /\ ConcUnchanged
    ELSE
        LET r == GenerateCertResult(keyFile, certFile, nextKey, nextSerial,
                                    csr, lifetime, cfgAlt) IN
        /\ keyFile' = r.keyFile
        /\ certFile' = r.certFile
        /\ nextKey' = IF r.keyFile # keyFile THEN nextKey + 1 ELSE nextKey
        /\ nextSerial' = IF r.certFile # certFile THEN nextSerial + 1 ELSE nextSerial
        /\ verified' = verified \cup {csr}
        /\ last' = [Call("request") EXCEPT !.outcome = r.outcome, !.exc = r.exc,
                                           !.leaf = r.leaf, !.kr = kr, !.csr = csr]
        /\ prevKey' = 0
        /\ UNCHANGED cfgAlt
        /\ ConcUnchanged

Next ==
    \/ GetCaKey
    \/ GetCaCert
    \/ \E csr \in CSRs \cup {0}, lifetime \in Lifetimes : GenerateCert(csr, lifetime)
    \/ \E csr \in CSRs, kr \in {"valid", "invalid", "raise"} : Verify(csr, kr)
    \/ \E kr \in {"ok", "notok", "raise"}, fp \in {"none", "fpr"} : Decrypt(kr, fp)
    \/ \E csr \in CSRs, kr \in {"valid", "invalid", "raise"}, lifetime \in Lifetimes :
          HandleRequest(csr, kr, lifetime)

Spec == Init /\ [][Next]_vars

----------------------------------------------------------------------------
(* Two callers in generate_cert at once.  Each step is one file operation  *)
(* or one stretch of local computation; nothing in the code takes a lock.  *)
(* open(path, 'wb') truncates the file before the data is written, so a    *)
(* file being written is empty (unparseable) for a moment.  Two writers    *)
(* leave the bytes of the one that wrote last.                             *)

SeqUnchanged == UNCHANGED <<last, prevKey, verified, cfgAlt>>

Goto(p, label) == pc' = [pc EXCEPT ![p] = label]

Raise(p, exc) ==
    /\ pc' = [pc EXCEPT ![p] = "raised"]
    /\ loc' = [loc EXCEPT ![p].exc = exc]

(* line 169: the call *)
Enter(p, csr, lifetime) ==
    /\ pc[p] = "idle"
    /\ Goto(p, "key_read")
    /\ loc' = [loc EXCEPT ![p].csr = csr, ![p].lifetime = lifetime]
    /\ UNCHANGED <<keyFile, certFile, nextKey, nextSerial, lastWriter>>
    /\ SeqUnchanged

(* lines 80-88: open, read and parse the key file *)
KeyRead(p) ==
    /\ pc[p] = "key_read"
    /\ IF keyFile.st = "absent" THEN Raise(p, "FileNotFoundError")
       ELSE IF keyFile.st = "valid" THEN
            /\ Goto(p, "cert_check")
            /\ loc' = [loc EXCEPT ![p].key = keyFile.key]
       ELSE /\ Goto(p, "key_gen")
            /\ UNCHANGED loc
    /\ UNCHANGED <<keyFile, certFile, nextKey, nextSerial, lastWriter>>
    /\ SeqUnchanged

(* lines 90-98: rsa.generate_private_key *)
KeyGen(p) ==
    /\ pc[p] = "key_gen"
    /\ Goto(p, "key_open")
    /\ loc' = [loc EXCEPT ![p].key = nextKey]
    /\ nextKey' = nextKey + 1
    /\ UNCHANGED <<keyFile, certFile, nextSerial, lastWriter>>
    /\ SeqUnchanged

(* line 99: open(ca_key_path, 'wb') *)
KeyOpen(p) ==
    /\ pc[p] = "key_open"
    /\ Goto(p, "key_write")
    /\ keyFile' = KeyCorrupt
    /\ UNCHANGED <<loc, certFile, nextKey, nextSerial, lastWriter>>
    /\ SeqUnchanged

(* lines 100-101: write, close, return key *)
KeyWrite(p) ==
    /\ pc[p] = "key_write"
    /\ Goto(p, "cert_check")
    /\ keyFile' = KeyValid(loc[p].key)
    /\ UNCHANGED <<loc, certFile, nextKey, nextSerial, lastWriter>>
    /\ SeqUnchanged

(* line 114: os.path.isfile(ca_cert_path) *)
CertCheck(p) ==
    /\ pc[p] = "cert_check"
    /\ IF certFile.st # "absent"
       THEN /\ Goto(p, "cert_read")
            /\ UNCHANGED loc
       ELSE /\ Goto(p, "cert_build")
            /\ loc' = [loc EXCEPT ![p].sawAbsent = TRUE]
    /\ UNCHANGED <<keyFile, certFile, nextKey, nextSerial, lastWriter>>
    /\ SeqUnchanged

(* lines 115-120: read and parse the certificate file *)
CertRead(p) ==
    /\ pc[p] = "cert_read"
    /\ IF certFile.st = "valid"
       THEN /\ Goto(p, "sign")
            /\ loc' = [loc EXCEPT ![p].cert = certFile.cert]
       ELSE Raise(p, "ValueError")
    /\ UNCHANGED <<keyFile, certFile, nextKey, nextSerial, lastWriter>>
    /\ SeqUnchanged

CertBuildFixedSerial(p) ==
    /\ pc[p] = "cert_build"
    /\ Goto(p, "cert_open")
    /\ loc' = [loc EXCEPT ![p].cert = Cert(loc[p].key, 2)]
    /\ nextSerial' = nextSerial + 1
    /\ UNCHANGED <<keyFile, certFile, nextKey, lastWriter>>
    /\ SeqUnchanged

(* lines 122-162: build and sign the CA certificate, random serial *)
CertBuild(p) ==
    /\ pc[p] = "cert_build"
    /\ Goto(p, "cert_open")
    /\ loc' = [loc EXCEPT ![p].cert = Cert(loc[p].key, nextSerial)]
    /\ nextSerial' = nextSerial + 1
    /\ UNCHANGED <<keyFile, certFile, nextKey, lastWriter>>
    /\ SeqUnchanged

(* line 163: open(ca_cert_path, 'wb') *)
CertOpen(p) ==
    /\ pc[p] = "cert_open"
    /\ Goto(p, "cert_write")
    /\ certFile' = CertCorrupt
    /\ UNCHANGED <<loc, keyFile, nextKey, nextSerial, lastWriter>>
    /\ SeqUnchanged

(* lines 164-167: write, close, return ca_cert *)
CertWrite(p) ==
    /\ pc[p] = "cert_write"
    /\ Goto(p, "sign")
    /\ certFile' = CertValid(loc[p].cert)
    /\ lastWriter' = p
    /\ UNCHANGED <<loc, keyFile, nextKey, nextSerial>>
    /\ SeqUnchanged

(* lines 172-201: build, sign and return the leaf certificate *)
Sign(p) ==
    /\ pc[p] = "sign"
    /\ LET l == BuildLeaf(loc[p].csr, loc[p].lifetime, cfgAlt, loc[p].key, loc[p].cert) IN
       IF l.outcome = "raise" THEN Raise(p, l.exc)
       ELSE /\ Goto(p, "done")
            /\ loc' = [loc EXCEPT ![p].leaf = l.leaf]
    /\ UNCHANGED <<keyFile, certFile, nextKey, nextSerial, lastWriter>>
    /\ SeqUnchanged

NextConc ==
    \E p \in Procs :
        \/ \E csr \in CSRs \cup {0}, lifetime \in Lifetimes : Enter(p, csr, lifetime)
        \/ KeyRead(p)
        \/ KeyGen(p)
        \/ KeyOpen(p)
        \/ KeyWrite(p)
        \/ CertCheck(p)
        \/ CertRead(p)
        \/ CertBuild(p)
        \/ CertOpen(p)
        \/ CertWrite(p)
        \/ Sign(p)

(* The alternate-name text plays no part in the file operations *)
InitConc ==
    /\ Init
    /\ cfgAlt \in {<<>>, <<"a">>, <<"a", ",", "a">>}

SpecConc == InitConc /\ [][NextConc]_vars

----------------------------------------------------------------------------
(* Properties.  `last` is the most recent call: its arguments, what the    *)
(* keyring did (kr), how it ended, what it returned, and the two files as  *)
(* they were when it started (preKey, preCert).                            *)

Issued == last.op \in {"generate_cert", "request"} /\ last.leaf # NoLeaf

(* C1, as stated: generate_cert leaves the CA key file and the CA          *)
(* certificate file exactly as they were, whatever their state, whether it *)
(* returns or raises.                                                      *)
C1FilesNeverMutated ==
    last.op = "generate_cert" =>
        /\ keyFile = last.preKey
        /\ certFile = last.preCert

(* C1, amended: generate_cert changes the key file only when it held an    *)
(* unparseable key, and the certificate file only when it was absent and   *)
(* a key file existed; otherwise both files are as before the call.        *)
C1FilesMutatedOnlyOnBootstrap ==
    last.op = "generate_cert" =>
        /\ last.preKey.st # "corrupt" => keyFile = last.preKey
        /\ ~(last.preCert.st = "absent" /\ last.preKey.st # "absent")
              => certFile = last.preCert

C1Witness ==
    /\ last.op = "generate_cert"
    /\ last.outcome = "ret"
    /\ last.preKey.st = "valid" /\ keyFile = last.preKey
    /\ last.preCert.st = "valid" /\ certFile = last.preCert

(* C2: get_ca_key on a path with no parseable key, a missing file          *)
(* included, generates a key, writes it and returns it; the file then      *)
(* holds exactly the returned key.                                         *)
C2GeneratesWhenNoValidKey ==
    (last.op = "get_ca_key" /\ last.preKey.st # "valid") =>
        /\ last.outcome = "ret"
        /\ last.key # 0
        /\ keyFile = KeyValid(last.key)

(* C3: decrypt never raises; when the keyring raises or reports ok false,  *)
(* decrypt returns with a null plaintext.                                  *)
C3DecryptNeverRaises ==
    last.op = "decrypt" =>
        /\ last.outcome = "ret"
        /\ last.kr # "ok" => last.plain = "none"

(* C4, as stated: verify returns only on a valid signature, and raises     *)
(* CertProcessorInvalidSignatureError both on a negative result and when   *)
(* the keyring call itself fails.                                          *)
C4RaisesInvalidSignatureOnAnyFailure ==
    last.op = "verify" =>
        /\ last.outcome = "ret" <=> last.kr = "valid"
        /\ last.kr # "valid" => last.exc = "CertProcessorInvalidSignatureError"

(* C4, amended: verify returns only on a valid signature; on a negative    *)
(* result it raises CertProcessorInvalidSignatureError; when the keyring   *)
(* call itself fails, the keyring's exception propagates unchanged.        *)
C4FailsClosed ==
    last.op = "verify" =>
        /\ last.outcome = "ret" <=> last.kr = "valid"
        /\ last.kr = "invalid" => last.exc = "CertProcessorInvalidSignatureError"
        /\ last.kr = "raise" => last.exc = "KeyringError"

C4Witness ==
    /\ last.op = "verify"
    /\ last.kr = "invalid"
    /\ last.outcome = "raise"
    /\ last.exc = "CertProcessorInvalidSignatureError"

(* C5, as stated: in every sequence of calls, a certificate is issued for  *)
(* a CSR only if verify has succeeded for that CSR before.                 *)
C5IssuedOnlyIfVerified ==
    Issued => last.csr \in verified

(* C5, amended: CertProcessor does not itself tie generate_cert to verify; *)
(* in a request that runs verify and then generate_cert, a certificate is  *)
(* issued only if the keyring reported the signature valid, and a failed   *)
(* verify issues nothing and touches no file.                              *)
C5RequestIssuesOnlyIfVerified ==
    last.op = "request" =>
        /\ last.leaf # NoLeaf => (last.kr = "valid" /\ last.csr \in verified)
        /\ last.kr # "valid" =>
              /\ last.leaf = NoLeaf
              /\ last.outcome = "raise"
              /\ keyFile = last.preKey
              /\ certFile = last.preCert

C5Witness ==
    /\ last.op = "request"
    /\ last.kr = "invalid"
    /\ last.leaf = NoLeaf
    /\ last.preKey.st = "valid"
    /\ last.preCert.st = "valid"

(* C6: whenever a CA key and a CA certificate are both in place, the       *)
(* certificate's public key is the public half of the CA key, and every    *)
(* issued certificate is signed by the key its issuer certificate          *)
(* certifies.                                                              *)
C6CaCertMatchesCaKey ==
    /\ (keyFile.st = "valid" /\ certFile.st = "valid")
          => certFile.cert.pub = keyFile.key
    /\ Issued => last.leaf.signedBy = last.leaf.issuer.pub

(* C7: with a valid key in the key file, get_ca_key returns that key, a    *)
(* get_ca_key directly after a get_ca_key that returned a key returns the  *)
(* same key, and no call changes a key file that holds a valid key.        *)
C7IdempotentLoad ==
    /\ (last.op # "none" /\ last.preKey.st = "valid") => keyFile = last.preKey
    /\ (last.op = "get_ca_key" /\ last.preKey.st = "valid") =>
          (last.outcome = "ret" /\ last.key = last.preKey.key)
    /\ (last.op = "get_ca_key" /\ prevKey # 0) =>
          (last.outcome = "ret" /\ last.key = prevKey)

C7Witness ==
    /\ last.op = "get_ca_key"
    /\ prevKey # 0
    /\ last.key = prevKey
    /\ keyFile = KeyValid(prevKey)

(* C8: an issued certificate carries a Subject-Alternative-Name extension  *)
(* if and only if the alternate_name configuration is non-empty, and then  *)
(* the extension lists exactly the configured names.                       *)
C8SanIffConfigured ==
    Issued =>
        /\ last.leaf.hasSan <=> cfgAlt # <<>>
        /\ last.leaf.hasSan => last.leaf.san = Split(cfgAlt)

(* C9: once the CA certificate file exists no call changes it, and         *)
(* get_ca_cert and generate_cert use the certificate stored in it.         *)
C9CaCertCreatedOnce ==
    /\ (last.op # "none" /\ last.preCert.st # "absent") => certFile = last.preCert
    /\ (last.op = "get_ca_cert" /\ last.preCert.st = "valid") =>
          (last.outcome = "ret" /\ last.cert = last.preCert.cert)
    /\ (Issued /\ last.preCert.st = "valid") => last.leaf.issuer = last.preCert.cert

C9Witness ==
    /\ last.op = "get_ca_cert"
    /\ last.preCert.st = "valid"
    /\ last.preCert.cert.serial >= 2
    /\ last.cert = last.preCert.cert
    /\ certFile = last.preCert

(* C10: when two concurrent callers have both found the CA certificate     *)
(* file absent and both have returned, they built different certificates,  *)
(* the file holds the certificate of the one that wrote last, and the      *)
(* other has issued under a CA certificate that is not the one on file.    *)
RacedAndReturned(p, q) ==
    /\ p # q
    /\ loc[p].sawAbsent /\ loc[q].sawAbsent
    /\ pc[p] = "done" /\ pc[q] = "done"
    /\ lastWriter = q

C10LastWriterWins ==
    \A p \in Procs, q \in Procs :
        RacedAndReturned(p, q) =>
            /\ loc[p].cert # loc[q].cert
            /\ certFile = CertValid(loc[q].cert)
            /\ loc[p].leaf.issuer = loc[p].cert
            /\ loc[p].leaf.issuer # certFile.cert

C10Witness ==
    \E p \in Procs, q \in Procs :
        /\ RacedAndReturned(p, q)
        /\ loc[p].key = loc[q].key
        /\ certFile = CertValid(loc[q].cert)
        /\ loc[p].leaf.issuer # certFile.cert

====
